---- MODULE Spec2Model ----
(***************************************************************************)
(* Translation proxy: the Express server (src/unnamed/part_001) and the    *)
(* Cloudflare worker (src/unnamed/part_000).  Both deployments run the     *)
(* same pipeline (rate limit, validation, normalisation, language          *)
(* detection, short circuit, cache lookup, upstream translation, cache     *)
(* store); the variable deploy says which code is running.                 *)
(*                                                                         *)
(* Strings the code inspects (texts, language codes, upstream answers)     *)
(* are sequences of one-character strings.  JSON values of the request     *)
(* body are records [t, v]: t is the JavaScript type, v the characters.    *)
(* Error messages are sequences of tokens; String.includes is token        *)
(* membership.  SHA-1 is taken to be injective: a cache key is the tuple   *)
(* that JSON.stringify serialises.                                         *)
(***************************************************************************)
EXTENDS Integers, Sequences, FiniteSets, TLC

VARIABLES
    deploy,     \* "server" (part_001) or "worker" (part_000)
    nodeEnv,    \* NODE_ENV, read by the server only
    apiKey,     \* whether GOOGLE_API_KEY is configured
    RATE_LIMIT_WINDOW_MS,   \* the window of the server's limiter, in milliseconds
    now,        \* Date.now(), in milliseconds
    ticks,      \* how often the clock will still advance
    step,       \* the milliseconds by which the clock advances in this behaviour
    cache,      \* translationCache (server) / TRANSLATION_CACHE translation entries (worker)
    rl,         \* rate-limit window record per client identity
    req,        \* the request each connection has in flight
    resp,       \* the exchange (request and response) the last handler step completed
    pool,       \* the request bodies clients send in this behaviour
    left,       \* how many more requests the clients will send
    admitted,   \* per client and windowStart: how many requests the limiter admitted
    raced,      \* per client: two of its requests were inside checkRateLimit at once
    input,      \* the argument of a function examined on its own
    output      \* its result; beside the pipeline, the server's store as it would
                \* be had no sweep run

vars == <<deploy, nodeEnv, apiKey, RATE_LIMIT_WINDOW_MS, now, ticks, step, cache, rl, req, resp, pool, left,
         admitted, raced, input, output>>

-----------------------------------------------------------------------------
(* Bounds of the model *)

\* clock advances in one behaviour
MaxTicks == 2
\* requests issued in one behaviour
MaxRequests == 2
\* characters of an answer of the detection model, when detectLanguage is examined alone
MaxAnswerLen == 3
\* characters of a text, when normalizeText is examined alone
MaxTextLen == 4
\* bursts of requests of one client, when checkRateLimit is examined alone
MaxBursts == 3

(* Program constants *)

\* part_000:15 (seconds); part_001:21 is the same duration in milliseconds
CACHE_TTL == 259200
\* part_000:18 (seconds); part_001:66 is the same duration in milliseconds
RATE_LIMIT_WINDOW == 60
\* part_000:19, part_001:67
RATE_LIMIT_MAX == 60

CACHE_TTL_MS == CACHE_TTL * 1000
windowMs == RATE_LIMIT_WINDOW * 1000

-----------------------------------------------------------------------------
(* Strings *)

IsSpace(c) == c \in {" ", "\n", "\t"}

RECURSIVE TrimStart(_)
TrimStart(s) ==
    IF s = <<>> THEN <<>>
    ELSE IF IsSpace(Head(s)) THEN TrimStart(Tail(s)) ELSE s

RECURSIVE TrimEnd(_)
TrimEnd(s) ==
    IF s = <<>> THEN <<>>
    ELSE IF IsSpace(s[Len(s)]) THEN TrimEnd(SubSeq(s, 1, Len(s) - 1)) ELSE s

\* String.prototype.trim
Trim(s) == TrimEnd(TrimStart(s))

\* s.replace(/\s+/g, " ")
RECURSIVE CollapseWhitespace(_)
CollapseWhitespace(s) ==
    IF s = <<>> THEN <<>>
    ELSE IF IsSpace(Head(s))
         THEN <<" ">> \o CollapseWhitespace(TrimStart(Tail(s)))
         ELSE <<Head(s)>> \o CollapseWhitespace(Tail(s))

\* s.split("\n"): always at least one line
RECURSIVE SplitLines(_)
SplitLines(s) ==
    IF \A i \in 1..Len(s) : s[i] # "\n" THEN <<s>>
    ELSE LET k == CHOOSE i \in 1..Len(s) :
                      s[i] = "\n" /\ \A j \in 1..(i - 1) : s[j] # "\n"
         IN  <<SubSeq(s, 1, k - 1)>> \o SplitLines(SubSeq(s, k + 1, Len(s)))

\* lines.join("\n")
RECURSIVE JoinLines(_)
JoinLines(ls) ==
    IF Len(ls) = 0 THEN <<>>
    ELSE IF Len(ls) = 1 THEN ls[1]
    ELSE ls[1] \o <<"\n">> \o JoinLines(Tail(ls))

RECURSIVE DropNewlines(_)
DropNewlines(s) ==
    IF s # <<>> /\ Head(s) = "\n" THEN DropNewlines(Tail(s)) ELSE s

\* A faulty variant: s.replace(/\n{3}/g, "\n\n"), three line breaks at a time.
RECURSIVE CapNewlinesByThree(_)
CapNewlinesByThree(s) ==
    IF s = <<>> THEN <<>>
    ELSE IF Len(s) >= 3 /\ s[1] = "\n" /\ s[2] = "\n" /\ s[3] = "\n"
         THEN <<"\n", "\n">> \o CapNewlinesByThree(SubSeq(s, 4, Len(s)))
         ELSE <<Head(s)>> \o CapNewlinesByThree(Tail(s))

\* s.replace(/\n{3,}/g, "\n\n")
RECURSIVE CapNewlines(_)
CapNewlines(s) ==
    IF s = <<>> THEN <<>>
    ELSE IF Len(s) >= 3 /\ s[1] = "\n" /\ s[2] = "\n" /\ s[3] = "\n"
         THEN <<"\n", "\n">> \o CapNewlines(DropNewlines(s))
         ELSE <<Head(s)>> \o CapNewlines(Tail(s))

\* part_001:90-97
normalizeTextServer(text) ==
    LET lines == SplitLines(text)
        mapped == [i \in 1..Len(lines) |-> CollapseWhitespace(Trim(lines[i]))]
    IN  CapNewlines(JoinLines(mapped))

\* part_000:32-34
normalizeTextWorker(text) == CollapseWhitespace(Trim(text))

normalizeText(d, text) ==
    IF d = "server" THEN normalizeTextServer(text) ELSE normalizeTextWorker(text)

LowerChar(c) ==
    CASE c = "E" -> "e"
      [] c = "N" -> "n"
      [] c = "V" -> "v"
      [] c = "I" -> "i"
      [] OTHER -> c

\* String.prototype.toLowerCase
ToLowerCase(s) == [i \in 1..Len(s) |-> LowerChar(s[i])]

LowerLetters == {"a", "e", "g", "i", "n", "o", "t", "u", "v", "x", "y"}

\* /^[a-z]{2}$/.test(s)
IsTwoLetterCode(s) == Len(s) = 2 /\ s[1] \in LowerLetters /\ s[2] \in LowerLetters

\* String.prototype.includes, on token sequences
Includes(msg, tok) == \E i \in 1..Len(msg) : msg[i] = tok

-----------------------------------------------------------------------------
(* JSON values of the request body *)

JsString(s) == [t |-> "string", v |-> s]
JsUndefined == [t |-> "undefined", v |-> <<>>]
\* a truthy value that is not a string, such as the number 5
JsNumber == [t |-> "number", v |-> <<"5">>]

\* !x is false
Truthy(x) == x.t = "number" \/ (x.t = "string" /\ x.v # <<>>)

en == <<"e", "n">>
vi == <<"v", "i">>
auto == <<"a", "u", "t", "o">>

-----------------------------------------------------------------------------
(* The inputs of the model *)

\* connections; each carries one request at a time
Sessions == {1, 2}

\* originating addresses (req.ip, CF-Connecting-IP)
Clients == {"ip1", "ip2"}

\* part_001:76, the TRUSTED_IPS setting of the deployment
trustedIPs == {"ip2"}

gemini == <<"gemini">>
openai == <<"openai">>

TextValues == {JsUndefined, JsString(<<" ">>), JsString(<<"a">>), JsString(<<" ", "a">>)}
SourceLangValues == {JsUndefined, JsString(en), JsString(vi)}
TargetLangValues == {JsUndefined, JsNumber, JsString(<<>>), JsString(en), JsString(vi)}
ProviderValues == {JsUndefined, JsString(gemini), JsString(openai)}

\* every body: the pool of the validation runs
Bodies ==
    [text : TextValues, sourceLang : SourceLangValues,
     targetLang : TargetLangValues, provider : ProviderValues]

\* the pool of the pipeline runs: the valid bodies of one text, and one body failing every check
PipelineBodies ==
    [text : {JsString(<<" ", "a">>)}, sourceLang : SourceLangValues,
     targetLang : {JsString(en), JsString(vi)}, provider : {JsString(gemini)}]
    \cup {[text |-> JsString(<<" ">>), sourceLang |-> JsUndefined,
           targetLang |-> JsUndefined, provider |-> JsString(openai)]}

\* what the detection model may answer (result.response.text())
DetectAnswers == {vi, <<"E", "N", " ">>, <<"e", "n", "g">>}

\* what the translation model may answer
TranslateAnswers == {<<"x">>, <<"y", " ">>, <<" ">>}

\* error texts of a failed upstream call
UpstreamErrors == {<<"Internal error">>, <<"API key">>, <<"quota">>}

\* Without a credential the upstream refuses the call.
DetectOutcomes(key) ==
    {[ok |-> FALSE, text |-> e] : e \in IF key THEN UpstreamErrors ELSE {<<"API key">>}}
    \cup (IF key THEN {[ok |-> TRUE, text |-> a] : a \in DetectAnswers} ELSE {})

TranslateOutcomes(key) ==
    {[ok |-> FALSE, text |-> e] : e \in IF key THEN UpstreamErrors ELSE {<<"API key">>}}
    \cup (IF key THEN {[ok |-> TRUE, text |-> a] : a \in TranslateAnswers} ELSE {})

\* clock advances: half a window, a window, the cache TTL
TickSteps == {windowMs \div 2, windowMs, CACHE_TTL_MS}

-----------------------------------------------------------------------------
(* Records *)

NoRecord == [count |-> 0, windowStart |-> -1, expiresAt |-> -1]
NoKey == <<>>
NoAfter == [valid |-> FALSE, translation |-> <<>>, cached |-> FALSE,
            tStore |-> -1, resolved |-> JsUndefined]

\* no entry under the key
NoEntry == [valid |-> FALSE, translation |-> <<>>, timestamp |-> -1]

IdleReq ==
    [pc |-> "idle", path |-> "/translate", client |-> "", body |-> [text |-> JsUndefined,
        sourceLang |-> JsUndefined, targetLang |-> JsUndefined, provider |-> JsUndefined],
     rlNow |-> -1, rlData |-> NoRecord, limited |-> FALSE, counted |-> FALSE,
     resolved |-> JsUndefined, cacheKey |-> NoKey,
     translation |-> <<>>, nDetect |-> 0, detectFailed |-> FALSE, nTranslate |-> 0, nCacheRead |-> 0,
     live |-> FALSE, found |-> <<>>, fresh |-> FALSE, after |-> NoAfter, alone |-> FALSE]

NoResp ==
    [path |-> "", health |-> "", limited |-> FALSE, counted |-> FALSE,
     retryAfterHeader |-> 0, remaining |-> -1, overwrote |-> NoEntry,
     client |-> "", body |-> IdleReq.body, status |-> 0, translation |-> <<>>,
     cached |-> FALSE, detectedSourceLang |-> JsUndefined, error |-> "",
     message |-> <<>>, retryAfter |-> 0, t |-> -1,
     resolved |-> JsUndefined, cacheKey |-> NoKey, storeKey |-> NoKey,
     nDetect |-> 0, detectFailed |-> FALSE, nTranslate |-> 0, nCacheRead |-> 0, nCacheWrite |-> 0,
     live |-> FALSE, found |-> <<>>, fresh |-> FALSE, tStore |-> -1, after |-> NoAfter,
     alone |-> FALSE]

-----------------------------------------------------------------------------
(* Pure parts of the handlers *)

ErrText == "Invalid request: \"text\" is required and must be a non-empty string"
ErrTargetLang == "Invalid request: \"targetLang\" is required"
ErrProvider == "Invalid request: \"provider\" must be \"gemini\""

\* !text || typeof text !== "string" || text.trim().length === 0
TextInvalid(text) == ~Truthy(text) \/ text.t # "string" \/ Trim(text.v) = <<>>

\* part_001:216-235: the error of the first failing check, "" when all pass
ValidateServer(body) ==
    IF TextInvalid(body.text) THEN ErrText
    ELSE IF ~Truthy(body.targetLang) \/ body.targetLang.t # "string" THEN ErrTargetLang
    ELSE IF body.provider # JsString(gemini) THEN ErrProvider
    ELSE ""

\* part_000:262-297
ValidateWorker(body) ==
    IF TextInvalid(body.text) THEN ErrText
    ELSE IF ~Truthy(body.targetLang) THEN ErrTargetLang
    ELSE IF body.provider # JsString(gemini) THEN ErrProvider
    ELSE ""

Validate(d, body) == IF d = "server" THEN ValidateServer(body) ELSE ValidateWorker(body)

\* const { sourceLang = "auto" } = body
SourceLangOf(body) ==
    IF body.sourceLang.t = "undefined" THEN JsString(auto) ELSE body.sourceLang

\* A faulty variant: the key is salted with the time of the call.
generateCacheKeySalted(text, sourceLang, targetLang, provider) ==
    <<text, sourceLang, targetLang, provider, now>>

\* A faulty variant: the source language is left out of the key.
generateCacheKeyNoSource(text, sourceLang, targetLang, provider) ==
    <<text, targetLang, provider>>

\* part_001:84-87, part_000:22-29: SHA-1 of JSON.stringify({text, sourceLang, targetLang, provider})
generateCacheKey(text, sourceLang, targetLang, provider) ==
    <<text, sourceLang, targetLang, provider>>

\* A faulty variant: the answer is not lower-cased before the test.
ParseDetectedCaseSensitive(answer) ==
    LET detectedLang == Trim(answer)
    IN  IF IsTwoLetterCode(detectedLang) THEN detectedLang ELSE en

\* part_001:118-127, part_000:68-78: the code taken from the model's answer
ParseDetected(answer) ==
    LET detectedLang == ToLowerCase(Trim(answer))
    IN  IF IsTwoLetterCode(detectedLang) THEN detectedLang ELSE en

\* part_001:100-132: every failure is caught and answered "en"
detectLanguageServer(outcome) ==
    [threw |-> FALSE, message |-> <<>>,
     lang |-> IF outcome.ok THEN ParseDetected(outcome.text) ELSE en]

\* part_000:37-79: a non-success response throws
detectLanguageWorker(outcome) ==
    IF outcome.ok
    THEN [threw |-> FALSE, message |-> <<>>, lang |-> ParseDetected(outcome.text)]
    ELSE [threw |-> TRUE, message |-> <<"Language detection failed">> \o outcome.text,
          lang |-> <<>>]

\* part_001:135-178, part_000:82-132: the trimmed answer, or the error thrown
translateText(outcome) ==
    IF outcome.ok
    THEN [threw |-> FALSE, message |-> <<>>, text |-> Trim(outcome.text)]
    ELSE [threw |-> TRUE, message |-> <<"Translation failed">> \o outcome.text,
          text |-> <<>>]

\* part_001:307-313
ServerStatusCode(message) ==
    IF Includes(message, "API key") THEN 401
    ELSE IF Includes(message, "quota") THEN 429
    ELSE IF Includes(message, "Translation failed") THEN 502
    ELSE 500

\* A faulty variant: every client is counted under one key.
RateLimitKeyShared(clientIP) == "ip1"

\* part_000:136: the key `ratelimit:${clientIP}`, one record per client identity
RateLimitKey(clientIP) == clientIP

\* env.TRANSLATION_CACHE.get of a rate-limit record: absent once expired
KVGetRecord(rec, t) == IF rec # NoRecord /\ t < rec.expiresAt THEN rec ELSE NoRecord

\* A faulty variant: the cap is compared with > and admits one request too many.
checkRateLimitOffByOne(data, t, tPut) ==
    IF data = NoRecord \/ data.windowStart < t - RATE_LIMIT_WINDOW * 1000
    THEN [allowed |-> TRUE, remaining |-> RATE_LIMIT_MAX - 1, retryAfter |-> 0,
          put |-> [count |-> 1, windowStart |-> t,
                   expiresAt |-> tPut + RATE_LIMIT_WINDOW * 1000]]
    ELSE IF data.count > RATE_LIMIT_MAX
    THEN [allowed |-> FALSE, remaining |-> 0, retryAfter |-> RATE_LIMIT_WINDOW,
          put |-> NoRecord]
    ELSE [allowed |-> TRUE, remaining |-> RATE_LIMIT_MAX - data.count - 1, retryAfter |-> 0,
          put |-> [count |-> data.count + 1, windowStart |-> data.windowStart,
                   expiresAt |-> tPut + RATE_LIMIT_WINDOW * 1000]]

\* A faulty variant: the record is put with an expiry of half the window.
checkRateLimitShortTtl(data, t, tPut) ==
    IF data = NoRecord \/ data.windowStart < t - RATE_LIMIT_WINDOW * 1000
    THEN [allowed |-> TRUE, remaining |-> RATE_LIMIT_MAX - 1, retryAfter |-> 0,
          put |-> [count |-> 1, windowStart |-> t,
                   expiresAt |-> tPut + (RATE_LIMIT_WINDOW * 1000) \div 2]]
    ELSE IF data.count >= RATE_LIMIT_MAX
    THEN [allowed |-> FALSE, remaining |-> 0, retryAfter |-> RATE_LIMIT_WINDOW,
          put |-> NoRecord]
    ELSE [allowed |-> TRUE, remaining |-> RATE_LIMIT_MAX - data.count - 1, retryAfter |-> 0,
          put |-> [count |-> data.count + 1, windowStart |-> data.windowStart,
                   expiresAt |-> tPut + (RATE_LIMIT_WINDOW * 1000) \div 2]]

\* A faulty variant: an increment reports the remaining count of before the request.
checkRateLimitStaleRemaining(data, t, tPut) ==
    IF data = NoRecord \/ data.windowStart < t - RATE_LIMIT_WINDOW * 1000
    THEN [allowed |-> TRUE, remaining |-> RATE_LIMIT_MAX - 1, retryAfter |-> 0,
          put |-> [count |-> 1, windowStart |-> t,
                   expiresAt |-> tPut + RATE_LIMIT_WINDOW * 1000]]
    ELSE IF data.count >= RATE_LIMIT_MAX
    THEN [allowed |-> FALSE, remaining |-> 0, retryAfter |-> RATE_LIMIT_WINDOW,
          put |-> NoRecord]
    ELSE [allowed |-> TRUE, remaining |-> RATE_LIMIT_MAX - data.count, retryAfter |-> 0,
          put |-> [count |-> data.count + 1, windowStart |-> data.windowStart,
                   expiresAt |-> tPut + RATE_LIMIT_WINDOW * 1000]]

\* A faulty variant: a rejection restarts the window of the client.
checkRateLimitRestartOnReject(data, t, tPut) ==
    IF data = NoRecord \/ data.windowStart < t - RATE_LIMIT_WINDOW * 1000
    THEN [allowed |-> TRUE, remaining |-> RATE_LIMIT_MAX - 1, retryAfter |-> 0,
          put |-> [count |-> 1, windowStart |-> t,
                   expiresAt |-> tPut + RATE_LIMIT_WINDOW * 1000]]
    ELSE IF data.count >= RATE_LIMIT_MAX
    THEN [allowed |-> FALSE, remaining |-> 0, retryAfter |-> RATE_LIMIT_WINDOW,
          put |-> [count |-> data.count, windowStart |-> t,
                   expiresAt |-> tPut + RATE_LIMIT_WINDOW * 1000]]
    ELSE [allowed |-> TRUE, remaining |-> RATE_LIMIT_MAX - data.count - 1, retryAfter |-> 0,
          put |-> [count |-> data.count + 1, windowStart |-> data.windowStart,
                   expiresAt |-> tPut + RATE_LIMIT_WINDOW * 1000]]

\* A faulty variant: the window is restarted once half of it has passed.
checkRateLimitHalfWindow(data, t, tPut) ==
    IF data = NoRecord \/ data.windowStart <= t - (RATE_LIMIT_WINDOW * 1000) \div 2
    THEN [allowed |-> TRUE, remaining |-> RATE_LIMIT_MAX - 1, retryAfter |-> 0,
          put |-> [count |-> 1, windowStart |-> t,
                   expiresAt |-> tPut + RATE_LIMIT_WINDOW * 1000]]
    ELSE IF data.count >= RATE_LIMIT_MAX
    THEN [allowed |-> FALSE, remaining |-> 0, retryAfter |-> RATE_LIMIT_WINDOW,
          put |-> NoRecord]
    ELSE [allowed |-> TRUE, remaining |-> RATE_LIMIT_MAX - data.count - 1, retryAfter |-> 0,
          put |-> [count |-> data.count + 1, windowStart |-> data.windowStart,
                   expiresAt |-> tPut + RATE_LIMIT_WINDOW * 1000]]

\* part_000:135-177: the decision on the record read, and the record to put (NoRecord: none).
\* t is Date.now() at entry, tPut the time of the put.
checkRateLimit(data, t, tPut) ==
    IF data = NoRecord \/ data.windowStart < t - RATE_LIMIT_WINDOW * 1000
    THEN [allowed |-> TRUE, remaining |-> RATE_LIMIT_MAX - 1, retryAfter |-> 0,
          put |-> [count |-> 1, windowStart |-> t,
                   expiresAt |-> tPut + RATE_LIMIT_WINDOW * 1000]]
    ELSE IF data.count >= RATE_LIMIT_MAX
    THEN [allowed |-> FALSE, remaining |-> 0, retryAfter |-> RATE_LIMIT_WINDOW,
          put |-> NoRecord]
    ELSE [allowed |-> TRUE, remaining |-> RATE_LIMIT_MAX - data.count - 1, retryAfter |-> 0,
          put |-> [count |-> data.count + 1, windowStart |-> data.windowStart,
                   expiresAt |-> tPut + RATE_LIMIT_WINDOW * 1000]]

\* The limiter of the server (express-rate-limit, configured at part_001:65-79):
\* a fixed window of RATE_LIMIT_WINDOW_MS per address; trusted addresses skip it.
\* The body of its 429 is the configured message, with retryAfter: 60.
limiter(client, data, t) ==
    IF client \in trustedIPs
    THEN [allowed |-> TRUE, remaining |-> RATE_LIMIT_MAX, retryAfter |-> 0, put |-> NoRecord]
    ELSE IF data = NoRecord \/ t - data.windowStart >= RATE_LIMIT_WINDOW_MS
    THEN [allowed |-> TRUE, remaining |-> RATE_LIMIT_MAX - 1, retryAfter |-> 0,
          put |-> [count |-> 1, windowStart |-> t,
                   expiresAt |-> t + RATE_LIMIT_WINDOW_MS]]
    ELSE IF data.count >= RATE_LIMIT_MAX
    THEN [allowed |-> FALSE, remaining |-> 0, retryAfter |-> 60, put |-> NoRecord]
    ELSE [allowed |-> TRUE, remaining |-> RATE_LIMIT_MAX - data.count - 1, retryAfter |-> 0,
          put |-> [count |-> data.count + 1, windowStart |-> data.windowStart,
                   expiresAt |-> data.windowStart + RATE_LIMIT_WINDOW_MS]]

\* A faulty variant: an entry whose age equals the TTL still counts as a hit.
CacheHitServerInclusive(c, key, t) == key \in DOMAIN c /\ t - c[key].timestamp <= CACHE_TTL_MS

\* translationCache.get(key) with the age test of part_001:270
CacheHitServer(c, key, t) == key \in DOMAIN c /\ t - c[key].timestamp < CACHE_TTL_MS

\* TRANSLATION_CACHE.get(key), entries expiring natively (part_000:382), with the test of part_000:339
CacheHitWorker(c, key, t) ==
    /\ key \in DOMAIN c
    /\ t < c[key].expiresAt
    /\ c[key].translation # <<>>

-----------------------------------------------------------------------------
(* Responses *)

Out0 ==
    [status |-> 0, translation |-> <<>>, cached |-> FALSE,
     detectedSourceLang |-> JsUndefined, error |-> "", message |-> <<>>,
     retryAfter |-> 0, storeKey |-> NoKey, tStore |-> -1, nCacheWrite |-> 0,
     health |-> "", retryAfterHeader |-> 0, remaining |-> -1, overwrote |-> NoEntry]

\* 200 {translation, cached, detectedSourceLang}
Success(translation, cached, lang) ==
    [Out0 EXCEPT !.status = 200, !.translation = translation, !.cached = cached,
                 !.detectedSourceLang = lang]

\* part_001:272-276, part_000:340-353: the stored translation, cached: true
HitResponse(entry, lang) == Success(entry.translation, TRUE, lang)

\* A faulty variant: the short circuit reports its answer as cached.
ShortCircuitCached(normalizedText, lang) == Success(normalizedText, TRUE, lang)

\* part_001:253-257, part_000:314-323: the normalized text, cached: false
ShortCircuit(normalizedText, lang) == Success(normalizedText, FALSE, lang)

\* 400 {error}
BadRequest(error) == [Out0 EXCEPT !.status = 400, !.error = error]

\* part_000:241-254, part_001:68-71: 429 {error, retryAfter} with its Retry-After
\* header; remaining is that of the limiter's decision
TooManyRequests(error, rateLimit, header) ==
    [Out0 EXCEPT !.status = 429, !.error = error, !.retryAfter = rateLimit.retryAfter,
                 !.retryAfterHeader = header, !.remaining = rateLimit.remaining]

\* The Retry-After header express-rate-limit sends: the window in seconds, rounded up.
RetryAfterOfLimiter == (RATE_LIMIT_WINDOW_MS + 999) \div 1000

\* part_001:315-321
ServerError(message) ==
    [Out0 EXCEPT !.status = ServerStatusCode(message),
                 !.error = "Translation service error",
                 !.message = IF nodeEnv = "development" THEN message
                             ELSE <<"An error occurred during translation">>]

\* part_000:400-412
WorkerError(message) ==
    [Out0 EXCEPT !.status = 502, !.error = "Translation service error",
                 !.message = message]

\* part_000:218-232, part_001:201-208: 200 {status: "healthy", ...}
Healthy == [Out0 EXCEPT !.status = 200, !.health = "healthy"]

\* part_000:357-366
WorkerNoKey ==
    [Out0 EXCEPT !.status = 500, !.error = "Server configuration error: API key not set"]

\* The exchange as completed: the request, what it did, and the response sent.
MkResp(r, out) ==
    [path |-> r.path, health |-> out.health, limited |-> r.limited, counted |-> r.counted,
     retryAfterHeader |-> out.retryAfterHeader, remaining |-> out.remaining,
     overwrote |-> out.overwrote,
     client |-> r.client, body |-> r.body, status |-> out.status,
     translation |-> out.translation, cached |-> out.cached,
     detectedSourceLang |-> out.detectedSourceLang, error |-> out.error,
     message |-> out.message, retryAfter |-> out.retryAfter, t |-> now,
     resolved |-> r.resolved, cacheKey |-> r.cacheKey, storeKey |-> out.storeKey,
     nDetect |-> r.nDetect, detectFailed |-> r.detectFailed, nTranslate |-> r.nTranslate, nCacheRead |-> r.nCacheRead,
     nCacheWrite |-> out.nCacheWrite, live |-> r.live, found |-> r.found,
     fresh |-> r.fresh, tStore |-> out.tStore,
     after |-> r.after, alone |-> r.alone]

\* The response is sent and the connection is free again.
Finish(s, r, out) ==
    /\ req' = [req EXCEPT ![s] = IdleReq]
    /\ resp' = MkResp(r, out)

\* The request goes on to its next await; no response was sent in this step.
Continue(s, r) ==
    /\ req' = [req EXCEPT ![s] = r]
    /\ resp' = NoResp

\* What the previous exchange stored, when the new request repeats its body.
AfterOf(body) ==
    IF resp.status = 200 /\ resp.nCacheWrite = 1 /\ resp.body = body
    THEN [valid |-> TRUE, translation |-> resp.translation, cached |-> resp.cached,
          tStore |-> resp.tStore, resolved |-> resp.resolved]
    ELSE NoAfter

\* At the lookup: the previous exchange stored its entry less than the TTL ago.
Fresh(after) == after.valid /\ now - after.tStore < CACHE_TTL_MS

\* At the lookup: the store holds an entry under the key, younger than the TTL.
Live(key) == key \in DOMAIN cache /\ now - cache[key].timestamp < CACHE_TTL_MS

\* The request as it is after its lookup under key.
LookedUp(r, key) ==
    [r EXCEPT !.nCacheRead = @ + 1, !.fresh = Fresh(r.after), !.live = Live(key),
              !.found = IF Live(key) THEN cache[key].translation ELSE <<>>]

\* What a request computes its key from: the normalized text, the resolved source
\* language, the target language and the provider (part_001:261-266, part_000:327-332).
Components(r) ==
    [text |-> normalizeText(deploy, r.body.text.v), sourceLang |-> r.resolved,
     targetLang |-> r.body.targetLang, provider |-> r.body.provider]

\* The entry a write under key replaces, if the store holds one.
Overwritten(key) ==
    IF key \in DOMAIN cache
    THEN [valid |-> TRUE, translation |-> cache[key].translation,
          timestamp |-> cache[key].timestamp]
    ELSE NoEntry

\* A request arrives on connection s, the first free one.
Accept(s) ==
    /\ left > 0
    /\ left' = left - 1
    /\ req[s].pc = "idle"
    /\ \A o \in Sessions : o < s => req[o].pc # "idle"

\* The request stays in flight; the requests already in flight are no longer alone.
Overlap(s, r) ==
    [o \in Sessions |-> IF o = s THEN r ELSE [req[o] EXCEPT !.alone = FALSE]]

\* Requests admitted per client and windowStart.
Admit(client, put) ==
    IF put = NoRecord THEN admitted
    ELSE [admitted EXCEPT ![client] =
            IF put.windowStart \in DOMAIN @
            THEN [@ EXCEPT ![put.windowStart] = @ + 1]
            ELSE (put.windowStart :> 1) @@ @]

-----------------------------------------------------------------------------
(* The worker: fetch, part_000:201-427.  One action per await. *)

\* part_000:303-332: from the resolved source language to the await of the cache lookup
WorkerResolved(s, r) ==
    LET normalizedText == normalizeTextWorker(r.body.text.v)
    IN  IF r.resolved = r.body.targetLang
        THEN Finish(s, r, ShortCircuit(normalizedText, r.resolved))
        ELSE Continue(s, [r EXCEPT !.pc = "lookup",
                 !.cacheKey = generateCacheKey(normalizedText, r.resolved,
                                               r.body.targetLang, r.body.provider)])

\* A faulty variant: the language is detected whatever sourceLang says.
WorkerValidatedAlwaysDetect(s, r, err) ==
    IF err # ""
    THEN Finish(s, r, BadRequest(err))
    ELSE Continue(s, [r EXCEPT !.pc = "detect"])

\* part_000:261-310: the 400 of a failed check, or on to detection or lookup
WorkerValidated(s, r, err) ==
    IF err # ""
    THEN Finish(s, r, BadRequest(err))
    ELSE IF SourceLangOf(r.body) = JsString(auto)
    THEN Continue(s, [r EXCEPT !.pc = "detect"])
    ELSE WorkerResolved(s, [r EXCEPT !.resolved = SourceLangOf(r.body)])

\* part_000:235-238, 135-141: POST /translate arrives; checkRateLimit reads the record
WorkerArrive(s) ==
    /\ deploy = "worker"
    /\ \E c \in Clients, b \in pool :
        LET r == [IdleReq EXCEPT !.pc = "ratelimit", !.client = c, !.body = b,
                      !.rlNow = now, !.rlData = KVGetRecord(rl[RateLimitKey(c)], now),
                      !.limited = TRUE,
                      !.after = AfterOf(b),
                      !.alone = (\A o \in Sessions \ {s} : req[o].pc = "idle")]
        IN  /\ Accept(s)
            /\ req' = Overlap(s, r)
            /\ resp' = NoResp
            /\ raced' = [raced EXCEPT ![c] =
                    @ \/ \E o \in Sessions : req[o].pc = "ratelimit" /\ req[o].client = c]
    /\ UNCHANGED <<input, output, RATE_LIMIT_WINDOW_MS, deploy, nodeEnv, apiKey, now, ticks, step, cache, rl, pool, admitted>>

\* part_000:143-177, 240-310: the record is put; 429, 400, or on to detection or lookup
WorkerRateLimit(s) ==
    /\ deploy = "worker"
    /\ req[s].pc = "ratelimit"
    /\ LET r0 == req[s]
           rateLimit == checkRateLimit(r0.rlData, r0.rlNow, now)
           r == [r0 EXCEPT !.rlNow = -1, !.rlData = NoRecord,
                           !.counted = (rateLimit.put # NoRecord)]
           err == ValidateWorker(r.body)
       IN  /\ rl' = IF rateLimit.put = NoRecord THEN rl
                    ELSE [rl EXCEPT ![RateLimitKey(r.client)] = rateLimit.put]
           /\ admitted' = Admit(r.client, rateLimit.put)
           /\ IF ~rateLimit.allowed
              THEN Finish(s, r, TooManyRequests("Too many requests", rateLimit,
                                                rateLimit.retryAfter))
              ELSE WorkerValidated(s, r, err)
    /\ UNCHANGED <<input, output, RATE_LIMIT_WINDOW_MS, deploy, nodeEnv, apiKey, now, ticks, step, cache, pool, left, raced>>

\* part_000:304-310, 37-79: the detection call returns
WorkerDetect(s) ==
    /\ deploy = "worker"
    /\ req[s].pc = "detect"
    /\ \E outcome \in DetectOutcomes(apiKey) :
        LET d == detectLanguageWorker(outcome)
            r == [req[s] EXCEPT !.nDetect = @ + 1, !.detectFailed = ~outcome.ok]
        IN  IF d.threw
            THEN Finish(s, r, WorkerError(d.message))
            ELSE WorkerResolved(s, [r EXCEPT !.resolved = JsString(d.lang)])
    /\ UNCHANGED <<input, output, RATE_LIMIT_WINDOW_MS, deploy, nodeEnv, apiKey, now, ticks, step, cache, rl, pool, left, admitted, raced>>

\* A faulty variant: a hit puts the entry again, with a new expiry.
WorkerLookupRefresh(s) ==
    /\ deploy = "worker"
    /\ req[s].pc = "lookup"
    /\ LET r == LookedUp(req[s], req[s].cacheKey)
       IN  IF CacheHitWorker(cache, r.cacheKey, now)
           THEN /\ cache' = [cache EXCEPT ![r.cacheKey] =
                                [@ EXCEPT !.timestamp = now,
                                          !.expiresAt = now + CACHE_TTL * 1000]]
                /\ Finish(s, r, HitResponse(cache[r.cacheKey], r.resolved))
           ELSE /\ cache' = cache
                /\ IF ~apiKey
                   THEN Finish(s, r, WorkerNoKey)
                   ELSE Continue(s, [r EXCEPT !.pc = "translate"])
    /\ UNCHANGED <<input, output, RATE_LIMIT_WINDOW_MS, deploy, nodeEnv, apiKey, now, ticks, step, rl, pool, left, admitted, raced>>

\* part_000:334-367: the cache lookup returns; hit, missing credential, or on to translation
WorkerLookup(s) ==
    /\ deploy = "worker"
    /\ req[s].pc = "lookup"
    /\ LET r == LookedUp(req[s], req[s].cacheKey)
       IN  IF CacheHitWorker(cache, r.cacheKey, now)
           THEN Finish(s, r, HitResponse(cache[r.cacheKey], r.resolved))
           ELSE IF ~apiKey
           THEN Finish(s, r, WorkerNoKey)
           ELSE Continue(s, [r EXCEPT !.pc = "translate"])
    /\ UNCHANGED <<input, output, RATE_LIMIT_WINDOW_MS, deploy, nodeEnv, apiKey, now, ticks, step, cache, rl, pool, left, admitted, raced>>

\* A faulty variant: a failed translation call is made once more.
WorkerTranslateRetry(s) ==
    /\ deploy = "worker"
    /\ req[s].pc = "translate"
    /\ \E outcome \in TranslateOutcomes(apiKey) :
        LET t == translateText(outcome)
            r == [req[s] EXCEPT !.nTranslate = @ + 1]
        IN  IF t.threw /\ r.nTranslate < 2
            THEN Continue(s, r)
            ELSE IF t.threw
            THEN Finish(s, r, WorkerError(t.message))
            ELSE Continue(s, [r EXCEPT !.pc = "store", !.translation = t.text])
    /\ UNCHANGED <<input, output, RATE_LIMIT_WINDOW_MS, deploy, nodeEnv, apiKey, now, ticks, step, cache, rl, pool, left, admitted, raced>>

\* part_000:370-376, 82-132, 400-412: the translation call returns
WorkerTranslate(s) ==
    /\ deploy = "worker"
    /\ req[s].pc = "translate"
    /\ \E outcome \in TranslateOutcomes(apiKey) :
        LET t == translateText(outcome)
            r == [req[s] EXCEPT !.nTranslate = @ + 1]
        IN  IF t.threw
            THEN Finish(s, r, WorkerError(t.message))
            ELSE Continue(s, [r EXCEPT !.pc = "store", !.translation = t.text])
    /\ UNCHANGED <<input, output, RATE_LIMIT_WINDOW_MS, deploy, nodeEnv, apiKey, now, ticks, step, cache, rl, pool, left, admitted, raced>>

\* The key the worker stores under: the one of the lookup.
WorkerStoreKey(r) == r.cacheKey

\* A faulty variant: the entry is put only when the store holds none under the key.
WorkerStoreIfAbsent(s) ==
    /\ deploy = "worker"
    /\ req[s].pc = "store"
    /\ LET r == req[s]
           key == WorkerStoreKey(r)
       IN  /\ cache' = IF key \in DOMAIN cache THEN cache
                       ELSE (key :> [translation |-> r.translation, timestamp |-> now,
                                     expiresAt |-> now + CACHE_TTL * 1000,
                                by |-> Components(r)]) @@ cache
           /\ Finish(s, r, [Success(r.translation, FALSE, r.resolved) EXCEPT
                               !.storeKey = key, !.tStore = now, !.nCacheWrite = 1,
                               !.overwrote = Overwritten(key)])
    /\ UNCHANGED <<input, output, RATE_LIMIT_WINDOW_MS, deploy, nodeEnv, apiKey, now, ticks, step, rl, pool, left, admitted, raced>>

\* part_000:378-399: the entry is put with its native expiry and the response sent
WorkerStore(s) ==
    /\ deploy = "worker"
    /\ req[s].pc = "store"
    /\ LET r == req[s]
           key == WorkerStoreKey(r)
       IN  /\ cache' = (key :> [translation |-> r.translation, timestamp |-> now,
                                expiresAt |-> now + CACHE_TTL * 1000,
                                by |-> Components(r)]) @@ cache
           /\ Finish(s, r, [Success(r.translation, FALSE, r.resolved) EXCEPT
                               !.storeKey = key, !.tStore = now, !.nCacheWrite = 1,
                               !.overwrote = Overwritten(key)])
    /\ UNCHANGED <<input, output, RATE_LIMIT_WINDOW_MS, deploy, nodeEnv, apiKey, now, ticks, step, rl, pool, left, admitted, raced>>

-----------------------------------------------------------------------------
(* The server: app.post("/translate"), part_001:211-323.  Node runs a handler *)
(* without interruption from one await to the next.                           *)

\* A faulty variant: the entry is stored under the key of the text as received.
ServerStoreKeyRaw(r) ==
    generateCacheKey(r.body.text.v, r.resolved, r.body.targetLang, r.body.provider)

\* The key the server stores under: the one of the lookup.
ServerStoreKey(r) == r.cacheKey

\* A faulty variant: the store is consulted before the short circuit is taken.
ServerResolvedLookupFirst(s, r0) ==
    LET normalizedText == normalizeTextServer(r0.body.text.v)
        cacheKey == generateCacheKey(normalizedText, r0.resolved,
                                     r0.body.targetLang, r0.body.provider)
        r == LookedUp([r0 EXCEPT !.cacheKey = cacheKey], cacheKey)
    IN  IF r0.resolved = r0.body.targetLang
        THEN Finish(s, r, ShortCircuit(normalizedText, r0.resolved))
        ELSE IF CacheHitServer(cache, cacheKey, now)
        THEN Finish(s, r, HitResponse(cache[cacheKey], r.resolved))
        ELSE req' = Overlap(s, [r EXCEPT !.pc = "translate"]) /\ resp' = NoResp

\* part_001:248-286: short circuit, cache lookup, and the start of the translation call
ServerResolved(s, r0) ==
    LET normalizedText == normalizeTextServer(r0.body.text.v)
        cacheKey == generateCacheKey(normalizedText, r0.resolved,
                                     r0.body.targetLang, r0.body.provider)
        r == LookedUp([r0 EXCEPT !.cacheKey = cacheKey], cacheKey)
    IN  IF r0.resolved = r0.body.targetLang
        THEN Finish(s, r0, ShortCircuit(normalizedText, r0.resolved))
        ELSE IF CacheHitServer(cache, cacheKey, now)
        THEN Finish(s, r, HitResponse(cache[cacheKey], r.resolved))
        ELSE req' = Overlap(s, [r EXCEPT !.pc = "translate"]) /\ resp' = NoResp

\* A faulty variant: the store is consulted before the body is validated.
ServerValidatedAfterLookup(s, r, err) ==
    IF err # ""
    THEN Finish(s, [r EXCEPT !.nCacheRead = @ + 1], BadRequest(err))
    ELSE IF SourceLangOf(r.body) = JsString(auto)
    THEN req' = Overlap(s, [r EXCEPT !.pc = "detect"]) /\ resp' = NoResp
    ELSE ServerResolved(s, [r EXCEPT !.resolved = SourceLangOf(r.body)])

\* part_001:215-246: the 400 of a failed check, or on to detection or lookup
ServerValidated(s, r, err) ==
    IF err # ""
    THEN Finish(s, r, BadRequest(err))
    ELSE IF SourceLangOf(r.body) = JsString(auto)
    THEN req' = Overlap(s, [r EXCEPT !.pc = "detect"]) /\ resp' = NoResp
    ELSE ServerResolved(s, [r EXCEPT !.resolved = SourceLangOf(r.body)])

\* part_001:81, 211-246: the limiter, validation, and the start of detection
ServerArrive(s) ==
    /\ deploy = "server"
    /\ Accept(s)
    /\ \E c \in Clients, b \in pool :
        LET rateLimit == limiter(c, rl[c], now)
            r == [IdleReq EXCEPT !.client = c, !.body = b, !.after = AfterOf(b),
                      !.limited = (c \notin trustedIPs),
                      !.counted = (rateLimit.put # NoRecord),
                      !.alone = (\A o \in Sessions \ {s} : req[o].pc = "idle")]
            err == ValidateServer(b)
        IN  /\ rl' = IF rateLimit.put = NoRecord THEN rl
                     ELSE [rl EXCEPT ![c] = rateLimit.put]
            /\ admitted' = Admit(c, rateLimit.put)
            /\ IF ~rateLimit.allowed
               THEN Finish(s, r, TooManyRequests(
                        "Too many requests from this IP, please try again later.",
                        rateLimit, RetryAfterOfLimiter))
               ELSE ServerValidated(s, r, err)
    /\ UNCHANGED <<input, output, RATE_LIMIT_WINDOW_MS, deploy, nodeEnv, apiKey, now, ticks, step, cache, pool, raced>>

\* part_001:244, 100-132: the detection call returns
ServerDetect(s) ==
    /\ deploy = "server"
    /\ req[s].pc = "detect"
    /\ \E outcome \in DetectOutcomes(apiKey) :
        LET d == detectLanguageServer(outcome)
            r == [req[s] EXCEPT !.nDetect = @ + 1, !.detectFailed = ~outcome.ok,
                                !.resolved = JsString(d.lang)]
        IN  ServerResolved(s, r)
    /\ UNCHANGED <<input, output, RATE_LIMIT_WINDOW_MS, deploy, nodeEnv, apiKey, now, ticks, step, cache, rl, pool, left, admitted, raced>>

\* A faulty variant: a write over an existing entry keeps the time it was first stored.
ServerTranslateKeepAge(s) ==
    /\ deploy = "server"
    /\ req[s].pc = "translate"
    /\ \E outcome \in TranslateOutcomes(apiKey) :
        LET t == translateText(outcome)
            r == [req[s] EXCEPT !.nTranslate = @ + 1]
            key == ServerStoreKey(r)
        IN  IF t.threw
            THEN /\ cache' = cache
                 /\ output' = output
                 /\ Finish(s, r, ServerError(t.message))
            ELSE /\ cache' = (key :> [translation |-> t.text,
                                      timestamp |-> IF key \in DOMAIN cache
                                                    THEN cache[key].timestamp ELSE now,
                                      expiresAt |-> 0,
                                      by |-> Components(r)]) @@ cache
                 /\ output' = (key :> [translation |-> t.text,
                                       timestamp |-> IF key \in DOMAIN cache
                                                     THEN cache[key].timestamp ELSE now,
                                       expiresAt |-> 0,
                                       by |-> Components(r)]) @@ output
                 /\ Finish(s, r, [Success(t.text, FALSE, r.resolved) EXCEPT
                                     !.storeKey = key, !.tStore = now, !.nCacheWrite = 1,
                                     !.overwrote = Overwritten(key)])
    /\ UNCHANGED <<input, RATE_LIMIT_WINDOW_MS, deploy, nodeEnv, apiKey, now, ticks, step, rl, pool, left, admitted, raced>>

\* part_001:282-322, 135-178: the translation call returns; store and respond, or the catch
ServerTranslate(s) ==
    /\ deploy = "server"
    /\ req[s].pc = "translate"
    /\ \E outcome \in TranslateOutcomes(apiKey) :
        LET t == translateText(outcome)
            r == [req[s] EXCEPT !.nTranslate = @ + 1]
            key == ServerStoreKey(r)
        IN  IF t.threw
            THEN /\ cache' = cache
                 /\ output' = output
                 /\ Finish(s, r, ServerError(t.message))
            ELSE /\ cache' = (key :> [translation |-> t.text, timestamp |-> now,
                                      expiresAt |-> 0,
                                      by |-> Components(r)]) @@ cache
                 /\ output' = (key :> [translation |-> t.text, timestamp |-> now,
                                       expiresAt |-> 0,
                                       by |-> Components(r)]) @@ output
                 /\ Finish(s, r, [Success(t.text, FALSE, r.resolved) EXCEPT
                                     !.storeKey = key, !.tStore = now, !.nCacheWrite = 1,
                               !.overwrote = Overwritten(key)])
    /\ UNCHANGED <<input, RATE_LIMIT_WINDOW_MS, deploy, nodeEnv, apiKey, now, ticks, step, rl, pool, left, admitted, raced>>

\* A faulty variant: the sweep removes every entry older than a minute.
cleanupCacheEager ==
    /\ deploy = "server"
    /\ \E k \in DOMAIN cache : now - cache[k].timestamp >= windowMs
    /\ cache' = [k \in {x \in DOMAIN cache : ~(now - cache[x].timestamp >= windowMs)}
                    |-> cache[k]]
    /\ UNCHANGED <<input, output, RATE_LIMIT_WINDOW_MS, deploy, nodeEnv, apiKey, now, ticks, step, rl, req, resp, pool, left, admitted, raced>>

\* part_001:181-198: the hourly sweep
cleanupCache ==
    /\ deploy = "server"
    /\ \E k \in DOMAIN cache : now - cache[k].timestamp > CACHE_TTL_MS
    /\ cache' = [k \in {x \in DOMAIN cache : ~(now - cache[x].timestamp > CACHE_TTL_MS)}
                    |-> cache[k]]
    /\ UNCHANGED <<input, output, RATE_LIMIT_WINDOW_MS, deploy, nodeEnv, apiKey, now, ticks, step, rl, req, resp, pool, left, admitted, raced>>

-----------------------------------------------------------------------------

\* Time passes: by half a minute or more, so only while every request in flight
\* waits for the upstream model; a read or write of the store takes milliseconds.
Tick ==
    /\ ticks > 0
    /\ \A s \in Sessions : req[s].pc \in {"idle", "detect", "translate"}
    /\ now' = now + step
    /\ ticks' = ticks - 1
    /\ UNCHANGED <<input, output, RATE_LIMIT_WINDOW_MS, deploy, nodeEnv, apiKey, step, cache, rl, req, resp, pool, left, admitted, raced>>

\* The window record of a client that sent n requests at time 0.
EarlierTraffic(n) ==
    IF n = 0 THEN NoRecord
    ELSE [count |-> n, windowStart |-> 0, expiresAt |-> windowMs]

\* The deployments examined: the usual one under each clock step, and one
\* departure from it at a time (development mode, no credential, a client
\* that has used up all or all but one of its window), and the server with a
\* window of two minutes set in RATE_LIMIT_WINDOW_MS, facing an exhausted client.
Base == [nodeEnv |-> "production", apiKey |-> TRUE, sent |-> 0, step |-> windowMs,
         window |-> windowMs]

Configurations ==
    {[Base EXCEPT !.step = d] : d \in TickSteps}
    \cup {[Base EXCEPT !.nodeEnv = "development"], [Base EXCEPT !.apiKey = FALSE]}
    \cup {[Base EXCEPT !.sent = RATE_LIMIT_MAX - 1, !.step = windowMs \div 2],
           [Base EXCEPT !.sent = RATE_LIMIT_MAX],
           [Base EXCEPT !.sent = RATE_LIMIT_MAX, !.window = 2 * windowMs]}

\* Deployment c before any request of the behaviour, and the traffic to come.
Start(c, bodies, n, k) ==
    /\ nodeEnv = c.nodeEnv
    /\ apiKey = c.apiKey
    /\ RATE_LIMIT_WINDOW_MS = c.window
    /\ step = c.step
    /\ rl = [ip \in Clients |-> IF ip = "ip1" THEN EarlierTraffic(c.sent) ELSE NoRecord]
    /\ admitted = [ip \in Clients |->
                      IF ip = "ip1" /\ c.sent > 0 THEN (0 :> c.sent) ELSE <<>>]
    /\ now = 0
    /\ ticks = k
    /\ cache = <<>>
    /\ raced = [ip \in Clients |-> FALSE]
    /\ req = [s \in Sessions |-> IdleReq]
    /\ resp = NoResp
    /\ pool = bodies
    /\ left = n

InitWith(bodies, n, k) ==
    /\ deploy \in {"server", "worker"}
    /\ \E c \in Configurations : Start(c, bodies, n, k)
    /\ deploy = "worker" => nodeEnv = "production" /\ RATE_LIMIT_WINDOW_MS = windowMs
    /\ input = <<>>
    /\ output = <<>>

\* Concurrent requests with bodies of the pipeline pool.
Init == InitWith(PipelineBodies, MaxRequests, MaxTicks)

\* One request with any body.
InitValidation == InitWith(Bodies, 1, MaxTicks)

Next ==
    \/ \E s \in Sessions : WorkerArrive(s)
    \/ \E s \in Sessions : WorkerRateLimit(s)
    \/ \E s \in Sessions : WorkerDetect(s)
    \/ \E s \in Sessions : WorkerLookup(s)
    \/ \E s \in Sessions : WorkerTranslate(s)
    \/ \E s \in Sessions : WorkerStore(s)
    \/ \E s \in Sessions : ServerArrive(s)
    \/ \E s \in Sessions : ServerDetect(s)
    \/ \E s \in Sessions : ServerTranslate(s)
    \/ cleanupCache
    \/ Tick

Spec == Init /\ [][Next]_vars

\* the valid bodies of two texts that differ in the whitespace normalization removes
KeyBodies ==
    [text : {JsString(<<" ", "a">>), JsString(<<"a">>)},
     sourceLang : {JsUndefined, JsString(en)},
     targetLang : {JsString(vi)}, provider : {JsString(gemini)}]

\* Concurrent requests with bodies of the key pool.
InitKey == InitWith(KeyBodies, MaxRequests, MaxTicks)

SpecKey == InitKey /\ [][Next]_vars

SpecValidation == InitValidation /\ [][Next]_vars

\* the valid bodies of one text and one target language, the source language given
\* as English, as French, or left to detection
SeparationBodies ==
    [text : {JsString(<<" ", "a">>)},
     sourceLang : {JsUndefined, JsString(en), JsString(<<"f", "r">>)},
     targetLang : {JsString(vi)}, provider : {JsString(gemini)}]

\* Concurrent requests with bodies of the separation pool.
InitSeparation == InitWith(SeparationBodies, MaxRequests, MaxTicks)

SpecSeparation == InitSeparation /\ [][Next]_vars

-----------------------------------------------------------------------------
(* The health endpoint beside the translation endpoint *)

\* A faulty variant: the health endpoint sits behind the rate limiter.
healthLimited(c) ==
    LET rateLimit == IF deploy = "server" THEN limiter(c, rl[c], now)
                     ELSE checkRateLimit(KVGetRecord(rl[c], now), now, now)
        r == [IdleReq EXCEPT !.path = "/health", !.client = c]
    IN  /\ rl' = IF rateLimit.put = NoRecord THEN rl ELSE [rl EXCEPT ![c] = rateLimit.put]
        /\ admitted' = Admit(c, rateLimit.put)
        /\ resp' = MkResp(r, IF rateLimit.allowed THEN Healthy
                              ELSE TooManyRequests("Too many requests", rateLimit,
                                                   rateLimit.retryAfter))
        /\ UNCHANGED <<input, output, RATE_LIMIT_WINDOW_MS, deploy, nodeEnv, apiKey, now, ticks, step, cache, req,
                       pool, left, raced>>

\* part_000:218-232, part_001:201-208: GET /health from client c; no await, no store touched
health(c) ==
    /\ resp' = MkResp([IdleReq EXCEPT !.path = "/health", !.client = c], Healthy)
    /\ UNCHANGED <<input, output, RATE_LIMIT_WINDOW_MS, deploy, nodeEnv, apiKey, now, ticks, step, cache, rl, req,
                   pool, left, admitted, raced>>

\* One translation request, and health checks at any moment.
InitHealth == InitWith(PipelineBodies, 1, MaxTicks)

NextHealth ==
    \/ Next
    \/ \E c \in Clients : health(c)

SpecHealth == InitHealth /\ [][NextHealth]_vars

-----------------------------------------------------------------------------
(* checkRateLimit on its own: one client of the worker sends its requests one *)
(* after another, in bursts, while the clock advances                          *)

\* how many requests a burst holds
BurstSizes == {1, RATE_LIMIT_MAX \div 2, RATE_LIMIT_MAX}

\* The record after n calls of checkRateLimit at time t, each returning before
\* the next begins, how many of them were allowed, and what the allowed ones
\* reported and stored.
RECURSIVE Sequentially(_, _, _)
Sequentially(rec, t, n) ==
    IF n = 0 THEN [rec |-> rec, allowed |-> 0, decisions |-> {}]
    ELSE LET rateLimit == checkRateLimit(KVGetRecord(rec, t), t, t)
         IN  IF rateLimit.allowed
             THEN [Sequentially(rateLimit.put, t, n - 1) EXCEPT
                      !.allowed = @ + 1,
                      !.decisions = @ \cup {[remaining |-> rateLimit.remaining,
                                             count |-> rateLimit.put.count]}]
             ELSE Sequentially(rec, t, n - 1)

\* output: how many requests were allowed at each time
\* input: what the allowed requests of the last burst reported and stored
InitSeam ==
    /\ deploy = "worker"
    /\ \E d \in {windowMs \div 2, windowMs} :
          Start([Base EXCEPT !.step = d], {}, MaxBursts, MaxTicks)
    /\ input = {}
    /\ output = <<>>

\* part_000:135-177: a burst of n requests of client ip1 at the present time
Burst(n) ==
    /\ left > 0
    /\ left' = left - 1
    /\ LET after == Sequentially(rl[RateLimitKey("ip1")], now, n)
       IN  /\ rl' = [rl EXCEPT ![RateLimitKey("ip1")] = after.rec]
           /\ input' = after.decisions
           /\ output' = IF after.allowed = 0 THEN output
                         ELSE IF now \in DOMAIN output
                         THEN [output EXCEPT ![now] = @ + after.allowed]
                         ELSE (now :> after.allowed) @@ output
    /\ UNCHANGED <<RATE_LIMIT_WINDOW_MS, deploy, nodeEnv, apiKey, now, ticks, step,
                   cache, req, resp, pool, admitted, raced>>

NextSeam ==
    \/ \E n \in BurstSizes : Burst(n)
    \/ Tick

SpecSeam == InitSeam /\ [][NextSeam]_vars

\* Two clients of the worker, and beside the store a second one that only the
\* requests of ip2 reach.
\* input: the record of ip2 in the second store
\* output: how many requests of the last burst of ip2 were allowed, in either store
InitIsolation ==
    /\ deploy = "worker"
    /\ \E d \in {windowMs \div 2, windowMs} :
          Start([Base EXCEPT !.step = d], {}, MaxBursts, MaxTicks)
    /\ input = NoRecord
    /\ output = [with |-> 0, without |-> 0]

\* part_000:135-177, 202-204: a burst of n requests of client c at the present time
BurstOf(c, n) ==
    /\ left > 0
    /\ left' = left - 1
    /\ LET after == Sequentially(rl[RateLimitKey(c)], now, n)
           alone == Sequentially(input, now, n)
       IN  /\ rl' = [rl EXCEPT ![RateLimitKey(c)] = after.rec]
           /\ input' = IF c = "ip2" THEN alone.rec ELSE input
           /\ output' = IF c = "ip2"
                         THEN [with |-> after.allowed, without |-> alone.allowed]
                         ELSE output
    /\ UNCHANGED <<RATE_LIMIT_WINDOW_MS, deploy, nodeEnv, apiKey, now, ticks, step,
                   cache, req, resp, pool, admitted, raced>>

NextIsolation ==
    \/ \E c \in Clients, n \in BurstSizes : BurstOf(c, n)
    \/ Tick

SpecIsolation == InitIsolation /\ [][NextIsolation]_vars

-----------------------------------------------------------------------------
(* detectLanguage on its own, over every short answer of the detection model *)

\* characters of an answer: letters of either case, white space, a digit
AnswerChars == {"e", "N", "g", " ", "1"}

\* every answer of at most MaxAnswerLen characters
Answers == UNION {[1..k -> AnswerChars] : k \in 0..MaxAnswerLen}

NoOutput == [threw |-> FALSE, message |-> <<>>, lang |-> <<>>]

InitDetect ==
    /\ deploy \in {"server", "worker"}
    /\ Start(Base, {}, 0, 0)
    /\ input \in {[ok |-> TRUE, text |-> a] : a \in Answers}
                 \cup {[ok |-> FALSE, text |-> e] : e \in UpstreamErrors}
    /\ output = NoOutput

\* part_001:100-132, part_000:37-79: the call returns a code or throws
detectLanguage ==
    /\ output = NoOutput
    /\ output' = IF deploy = "server" THEN detectLanguageServer(input)
                  ELSE detectLanguageWorker(input)
    /\ UNCHANGED <<input, RATE_LIMIT_WINDOW_MS, deploy, nodeEnv, apiKey, now, ticks, step, cache, rl, req, resp,
                   pool, left, admitted, raced>>

NextDetect == detectLanguage

SpecDetect == InitDetect /\ [][NextDetect]_vars

-----------------------------------------------------------------------------
(* normalizeText on its own, over every short text *)

\* characters of a text: a letter, a space, a tab, a line break
TextChars == {"a", " ", "\t", "\n"}

\* every text of at most MaxTextLen characters
Texts == UNION {[1..k -> TextChars] : k \in 0..MaxTextLen}

NotNormalized == [done |-> FALSE, text |-> <<>>]

InitNormalize ==
    /\ deploy \in {"server", "worker"}
    /\ Start(Base, {}, 0, 0)
    /\ input \in Texts
    /\ output = NotNormalized

\* part_001:90-97, part_000:32-34: normalizeText(text) returns
normalizeTextCall ==
    /\ ~output.done
    /\ output' = [done |-> TRUE, text |-> normalizeText(deploy, input)]
    /\ UNCHANGED <<input, RATE_LIMIT_WINDOW_MS, deploy, nodeEnv, apiKey, now, ticks, step, cache, rl, req, resp,
                   pool, left, admitted, raced>>

NextNormalize == normalizeTextCall

SpecNormalize == InitNormalize /\ [][NextNormalize]_vars

-----------------------------------------------------------------------------
(* Properties.  An exchange is read off resp, in the state its response is sent. *)

\* The 429 of the rate limiter (the server also answers 429 for an upstream quota error).
RateLimited(x) == x.status = 429 /\ x.error # "Translation service error"

\* resp repeats the body of the exchange before it, which stored its translation less
\* than the TTL before this lookup; no other request was in flight in between, and the
\* source language resolved to the same code.
Repeated ==
    /\ resp.status # 0
    /\ resp.after.valid
    /\ resp.alone
    /\ resp.fresh
    /\ resp.resolved = resp.after.resolved

\* C1 (as stated): two identical requests that resolve to the same source language,
\* the second issued within the TTL of the first: the first response has cached
\* false, the second has cached true and the same translation.
CacheRoundTrip ==
    Repeated => /\ ~resp.after.cached
                /\ resp.status = 200
                /\ resp.cached
                /\ resp.translation = resp.after.translation

\* C1, the case that fails: the worker stored an empty translation.
CacheRoundTripNonEmpty ==
    Repeated /\ ~(deploy = "worker" /\ resp.after.translation = <<>>)
        => /\ ~resp.after.cached
           /\ resp.status = 200
           /\ resp.cached
           /\ resp.translation = resp.after.translation

\* C2: a request whose resolved source language (given or detected) equals its
\* target language is answered 200 with exactly the normalized text, cached false,
\* and the resolved language reported.
ShortCircuitIdentity ==
    resp.status # 0 /\ resp.resolved # JsUndefined /\ resp.resolved = resp.body.targetLang
        => /\ resp.status = 200
           /\ resp.translation = normalizeText(deploy, resp.body.text.v)
           /\ ~resp.cached
           /\ resp.detectedSourceLang = resp.resolved

\* a detected language equal to the target, and a text that normalization changes
ShortCircuitIdentitySeen ==
    /\ resp.status = 200
    /\ resp.nDetect = 1
    /\ resp.resolved = resp.body.targetLang
    /\ resp.translation # resp.body.text.v

\* The error the validation rules name for a body: that of the first failing field in
\* the order text, targetLang, provider; "" when every check passes.
FirstFailure(body) ==
    IF body.text.t # "string" \/ Trim(body.text.v) = <<>> THEN ErrText
    ELSE IF body.targetLang.t # "string" \/ body.targetLang.v = <<>> THEN ErrTargetLang
    ELSE IF body.provider.t # "string" \/ body.provider.v # gemini THEN ErrProvider
    ELSE ""

\* C3 (as stated): a request that reaches validation is rejected with 400 and the
\* error of its first failing field, and is accepted only if all three checks pass.
ValidationFirstFailureWins ==
    resp.status # 0 /\ ~RateLimited(resp)
        => IF FirstFailure(resp.body) # ""
           THEN resp.status = 400 /\ resp.error = FirstFailure(resp.body)
           ELSE resp.status # 400

\* C3 holds of every body whose targetLang is a string or is falsy.
ValidationFirstFailureWinsOfStrings ==
    (resp.status # 0 /\ ~RateLimited(resp)
        /\ ~(deploy = "worker" /\ resp.body.targetLang.t = "number"))
        => IF FirstFailure(resp.body) # ""
           THEN resp.status = 400 /\ resp.error = FirstFailure(resp.body)
           ELSE resp.status # 400

\* C4: a request answered with a validation error (400) or rejected by the rate
\* limiter (429) called neither detection nor translation and neither read nor wrote
\* a translation entry of the cache.
FailFast ==
    resp.status = 400 \/ RateLimited(resp)
        => /\ resp.nDetect = 0
           /\ resp.nTranslate = 0
           /\ resp.nCacheRead = 0
           /\ resp.nCacheWrite = 0

\* a rate-limited request repeating the body whose translation was just stored
FailFastSeen == RateLimited(resp) /\ resp.after.valid /\ cache # <<>>

\* C5: a client whose requests enter the limiter one after another: no window admits
\* more than RATE_LIMIT_MAX requests; a request is rejected only when its window has
\* admitted RATE_LIMIT_MAX requests and has not yet elapsed, so the first
\* RATE_LIMIT_MAX requests of a window and any request after the window are allowed.
RateLimitBoundary ==
    \A c \in Clients : ~raced[c] =>
        /\ \A w \in DOMAIN admitted[c] : admitted[c][w] <= RATE_LIMIT_MAX
        /\ rl[c] # NoRecord =>
                /\ rl[c].windowStart \in DOMAIN admitted[c]
                /\ admitted[c][rl[c].windowStart] = rl[c].count
        /\ RateLimited(resp) /\ resp.client = c =>
                /\ rl[c] # NoRecord
                /\ rl[c].count = RATE_LIMIT_MAX
                /\ resp.t - rl[c].windowStart <= RATE_LIMIT_WINDOW_MS

\* the request that filled the window was admitted and the next one rejected
RateLimitBoundarySeen ==
    /\ RateLimited(resp)
    /\ ~raced[resp.client]
    /\ step = windowMs \div 2
    /\ left = 0
    /\ admitted[resp.client][0] = RATE_LIMIT_MAX

\* C6 (as stated): once no request of a client is inside checkRateLimit, the stored
\* count equals the number of requests admitted in the stored window.
NoLostUpdates ==
    \A c \in Clients :
        (rl[c] # NoRecord
            /\ \A s \in Sessions : ~(req[s].pc = "ratelimit" /\ req[s].client = c))
        => /\ rl[c].windowStart \in DOMAIN admitted[c]
           /\ rl[c].count = admitted[c][rl[c].windowStart]

\* C7 (as stated): a request whose detection call failed goes on with the resolved
\* source language "en"; no response is sent without it.
DetectionFailureNonFatal ==
    /\ resp.detectFailed => resp.resolved = JsString(en)
    /\ \A s \in Sessions : req[s].detectFailed => req[s].resolved = JsString(en)

\* C8: detectLanguage, when it returns, returns two lowercase letters; an answer of
\* the model is trimmed and lower-cased and returned if it is exactly two letters a-z,
\* and "en" is returned otherwise.
DetectedCodeWellFormed ==
    output # NoOutput /\ ~output.threw
        => /\ Len(output.lang) = 2
           /\ \A i \in 1..2 : output.lang[i] \in LowerLetters
           /\ input.ok =>
                LET a == ToLowerCase(Trim(input.text))
                    conforms == Len(a) = 2 /\ \A i \in 1..Len(a) : a[i] \in LowerLetters
                IN  output.lang = IF conforms THEN a ELSE en

\* an answer accepted after trimming and lower-casing
DetectedCodeWellFormedSeen ==
    /\ input = [ok |-> TRUE, text |-> <<" ", "N", "e">>]
    /\ output # NoOutput
    /\ output.lang = <<"n", "e">>

\* C9 (as stated): a lookup that finds an entry younger than the TTL is answered 200
\* with cached true and the translation found, without a call of translateText.
CacheHitServed ==
    resp.live => /\ resp.status = 200
                 /\ resp.cached
                 /\ resp.translation = resp.found
                 /\ resp.nTranslate = 0

\* C9 holds of every entry found but the worker's entries with an empty translation.
CacheHitServedNonEmpty ==
    resp.live /\ ~(deploy = "worker" /\ resp.found = <<>>)
        => /\ resp.status = 200
           /\ resp.cached
           /\ resp.translation = resp.found
           /\ resp.nTranslate = 0

\* C10: a step that writes an entry is the step that answers 200 after this request's
\* one successful translateText call, and it writes that translation under the key
\* of this request's lookup; a step that answers with an error leaves the cache as it was.
CacheWrittenOnSuccess ==
    [][/\ \A k \in DOMAIN cache' :
            (k \notin DOMAIN cache \/ cache'[k] # cache[k])
                => /\ resp'.status = 200
                   /\ ~resp'.cached
                   /\ resp'.nTranslate = 1
                   /\ resp'.nCacheRead = 1
                   /\ resp'.cacheKey = k
                   /\ resp'.storeKey = k
                   /\ cache'[k].translation = resp'.translation
       /\ resp'.status \notin {0, 200} /\ resp' # resp => cache' = cache]_vars

\* the last request of the behaviour stored its entry under the key of the normalized text
CacheWrittenOnSuccessSeen ==
    /\ resp.status = 200
    /\ resp.nCacheWrite = 1
    /\ resp.storeKey \in DOMAIN cache
    /\ cache[resp.storeKey].translation = resp.translation
    /\ resp.storeKey[1] # resp.body.text.v
    /\ left = 0

\* C11: a response with cached true comes from a lookup that found an entry whose
\* age, now - storedAt at the lookup, was less than the TTL; an entry of age equal to
\* or greater than the TTL is never served.
CacheExpiry == resp.cached => resp.live /\ resp.translation = resp.found

\* a lookup exactly one TTL after the entry was stored, answered as a miss
CacheExpirySeen ==
    /\ resp.status = 200
    /\ resp.after.valid
    /\ resp.alone
    /\ resp.nCacheRead = 1
    /\ ~resp.fresh
    /\ resp.t - resp.after.tStore = CACHE_TTL_MS
    /\ ~resp.cached

\* The exchange needed an upstream call: the limiter admitted it, validation accepted
\* it, and it asked for detection or its lookup was not served from the cache.
NeededUpstream(x) ==
    /\ x.status \notin {0, 400}
    /\ ~RateLimited(x)
    /\ \/ SourceLangOf(x.body) = JsString(auto)
       \/ x.nCacheRead = 1 /\ ~x.cached

\* C12 (as stated): without a credential, a request that needs an upstream call is
\* answered 500, and neither detection nor translation is called.
MissingCredential ==
    ~apiKey /\ NeededUpstream(resp)
        => resp.status = 500 /\ resp.nDetect = 0 /\ resp.nTranslate = 0

\* C12 holds of the worker's requests that name their source language.
MissingCredentialGivenSource ==
    ~apiKey /\ NeededUpstream(resp) /\ deploy = "worker"
            /\ SourceLangOf(resp.body) # JsString(auto)
        => resp.status = 500 /\ resp.nDetect = 0 /\ resp.nTranslate = 0

\* C13 (as stated): a request whose translateText call failed is answered 502 with
\* the fields error and message, whatever the upstream error text.
TranslationFailureIs502 ==
    resp.status # 0 /\ resp.nTranslate = 1 /\ resp.status # 200
        => resp.status = 502 /\ resp.error # "" /\ resp.message # <<>>

\* C13 holds of the worker, and of the server for error texts naming neither an API
\* key nor a quota.
TranslationFailureIs502Otherwise ==
    /\ resp.nTranslate = 1 /\ resp.status \notin {0, 200, 401, 429}
            => resp.status = 502 /\ resp.error # "" /\ resp.message # <<>>
    /\ resp.nTranslate = 1 /\ resp.status \in {401, 429} => deploy = "server"

\* the number of lines of a text: one more than its line breaks
LineCount(text) == Len(SplitLines(text))

\* C14 (as stated): normalizeText returns a text with as many lines as its input.
LineCountPreserved == output.done => LineCount(output.text) = LineCount(input)

\* C14 holds of the server for texts with fewer than three line breaks, and of the
\* worker for texts without a line break.
LineCountPreservedOfFewBreaks ==
    output.done /\ LineCount(input) <= (IF deploy = "server" THEN 3 ELSE 1)
        => LineCount(output.text) = LineCount(input)

\* A trusted client was neither rejected nor counted.
Skipped(c) ==
    /\ rl[c] = NoRecord
    /\ admitted[c] = <<>>
    /\ ~(RateLimited(resp) /\ resp.client = c)

\* C15 (as stated): a client on the allowlist of trusted addresses is never answered
\* 429 and its requests consume no quota.
TrustedSkipped == \A c \in trustedIPs : Skipped(c)

\* C15 holds of the server, whose limiter skips the trusted addresses.
TrustedSkippedByLimiter == deploy = "server" => \A c \in trustedIPs : Skipped(c)

\* The client's window holds RATE_LIMIT_MAX requests and has not ended.
Exhausted(c) ==
    /\ rl[c] # NoRecord
    /\ rl[c].count >= RATE_LIMIT_MAX
    /\ now - rl[c].windowStart < RATE_LIMIT_WINDOW_MS

\* C16: GET /health is answered 200 "healthy", never 429, and the step that answers
\* it leaves every rate-limit window and the translation cache as they were.
HealthUnlimited ==
    /\ [](resp.path = "/health" => resp.status = 200 /\ resp.health = "healthy")
    /\ [][resp'.path = "/health" /\ resp' # resp
            => rl' = rl /\ admitted' = admitted /\ cache' = cache]_vars

\* C16 happens: a health check of a client whose window is exhausted.
HealthUnlimitedSeen == resp.path = "/health" /\ Exhausted(resp.client)

\* C17 (as stated): validation runs before the rate limiter; a request that fails
\* validation is answered 400 and its client's window is neither consulted nor counted.
ValidationBeforeLimiter ==
    resp.status # 0 /\ resp.path = "/translate" /\ Validate(deploy, resp.body) # ""
        => resp.status = 400 /\ ~resp.limited /\ ~resp.counted

\* What holds instead: a request that fails validation is answered 400 unless the
\* limiter, which runs first, has rejected it.
ValidationBehindLimiter ==
    resp.status # 0 /\ resp.path = "/translate" /\ Validate(deploy, resp.body) # ""
        => resp.status = 400 \/ (RateLimited(resp) /\ resp.limited)

\* Upstream calls made so far for a request or a completed exchange.
AtMostOnce(x) == x.nDetect <= 1 /\ x.nTranslate <= 1

\* C18: a request calls the translation capability at most once and the detection
\* capability at most once, on every path, upstream failure included.
NoRetry == AtMostOnce(resp) /\ \A s \in Sessions : AtMostOnce(req[s])

\* C18 happens: language detected, then the translation call failed, once each.
NoRetrySeen ==
    /\ resp.status = 502
    /\ resp.nDetect = 1 /\ ~resp.detectFailed
    /\ resp.nTranslate = 1

\* What the client sees of an error response.
Seen(x) == <<x.status, x.error, x.message>>

\* The response to a request whose translation call fails with upstream text e.
FailedWith(e) ==
    LET message == translateText([ok |-> FALSE, text |-> e]).message
    IN  IF deploy = "server" THEN ServerError(message) ELSE WorkerError(message)

\* The translation call of the exchange failed.
TranslateFailed(x) == x.status \notin {0, 200} /\ x.nTranslate = 1

\* C19 (as stated): in production the error response is the same whatever the upstream
\* error text, and its message field carries none of it.
UpstreamTextHidden ==
    nodeEnv = "production" /\ TranslateFailed(resp)
        => \A e \in UpstreamErrors : Seen(FailedWith(e)) = Seen(resp)

\* What holds of the server: in production the message field is the fixed sentence;
\* the status code still follows the upstream text.
UpstreamTextHiddenInMessage ==
    deploy = "server" /\ nodeEnv = "production" /\ TranslateFailed(resp)
        => resp.message = <<"An error occurred during translation">>

\* C20 (as stated): a rate-limited request is answered 429 with remaining = 0 and
\* with retryAfter, in the body and in the Retry-After header, equal to the
\* configured window in seconds.
RetryAfterIsWindow ==
    RateLimited(resp) =>
        /\ resp.status = 429
        /\ resp.remaining = 0
        /\ resp.retryAfter * 1000 = RATE_LIMIT_WINDOW_MS
        /\ resp.retryAfterHeader * 1000 = RATE_LIMIT_WINDOW_MS

\* C20 holds where the window is the minute of the default configuration, and of
\* the header and remaining under every configuration.
RetryAfterIsWindowByDefault ==
    RateLimited(resp) =>
        /\ resp.remaining = 0
        /\ resp.retryAfterHeader * 1000 = RATE_LIMIT_WINDOW_MS
        /\ RATE_LIMIT_WINDOW_MS = windowMs => resp.retryAfter * 1000 = RATE_LIMIT_WINDOW_MS

\* What a request in flight or a completed exchange computed its key from.
KeyOf(x) == [text |-> x.body.text.v, sourceLang |-> x.resolved,
             targetLang |-> x.body.targetLang, provider |-> x.body.provider,
             cacheKey |-> x.cacheKey]

\* The requests in flight and the completed exchange that have computed a key.
Keyed == {k \in {KeyOf(req[s]) : s \in Sessions} \cup {KeyOf(resp)} : k.cacheKey # NoKey}

\* C21: requests with the same normalized text, languages and provider use the
\* same cache key, whatever whitespace their raw texts carried and whenever the
\* key was computed.
CacheKeyDeterminism ==
    \A x, y \in Keyed :
        /\ normalizeText(deploy, x.text) = normalizeText(deploy, y.text)
        /\ x.sourceLang = y.sourceLang
        /\ x.targetLang = y.targetLang
        /\ x.provider = y.provider
        => x.cacheKey = y.cacheKey

\* C21 happens: two requests with different raw texts hold the same key.
CacheKeyDeterminismSeen ==
    \E x, y \in Keyed : x.text # y.text /\ x.cacheKey = y.cacheKey

\* The age of the client's stored window when the exchange was rejected.
WindowAge(x) == x.t - rl[x.client].windowStart

\* C22 (as stated): a request arriving when now - windowStart >= windowDuration starts
\* a new window and is allowed; so a rejected request arrived inside the window.
WindowResetAtBoundary ==
    RateLimited(resp) /\ ~raced[resp.client] => WindowAge(resp) < RATE_LIMIT_WINDOW_MS

\* What holds instead: the server's limiter rejects only inside the window, the
\* worker also at the instant the window ends.
WindowResetAfterBoundary ==
    RateLimited(resp) /\ ~raced[resp.client] =>
        IF deploy = "server" THEN WindowAge(resp) < RATE_LIMIT_WINDOW_MS
        ELSE WindowAge(resp) <= RATE_LIMIT_WINDOW_MS

\* A text as its characters and its maximal runs of line breaks, in order.
RECURSIVE Runs(_)
Runs(s) ==
    IF s = <<>> THEN <<>>
    ELSE IF Head(s) = "\n"
         THEN <<[c |-> "\n", n |-> Len(s) - Len(DropNewlines(s))]>> \o Runs(DropNewlines(s))
         ELSE <<[c |-> Head(s), n |-> 1]>> \o Runs(Tail(s))

\* The text with each of its lines trimmed and its inner whitespace runs made one space.
PerLine(text) ==
    LET lines == SplitLines(text)
    IN  JoinLines([i \in 1..Len(lines) |-> CollapseWhitespace(Trim(lines[i]))])

\* Every line is trimmed and holds no whitespace but single spaces.
LinesClean(text) ==
    \A line \in {SplitLines(text)[i] : i \in 1..Len(SplitLines(text))} :
        /\ line = <<>> \/ (~IsSpace(line[1]) /\ ~IsSpace(line[Len(line)]))
        /\ \A j \in 1..Len(line) :
              IsSpace(line[j]) => line[j] = " " /\ (j > 1 => ~IsSpace(line[j - 1]))

\* C23 (as stated): in the output of normalizeText every line is trimmed, every inner
\* run of whitespace is one space, and every run of three or more line breaks of
\* the per-line-normalized text has become exactly two.
NormalizationRules ==
    output.done =>
        /\ LinesClean(output.text)
        /\ \A r \in 1..Len(Runs(output.text)) : Runs(output.text)[r].n <= 2
        /\ (\E r \in 1..Len(Runs(PerLine(input))) : Runs(PerLine(input))[r].n >= 3)
              => Runs(output.text) =
                    [r \in 1..Len(Runs(PerLine(input))) |->
                        [Runs(PerLine(input))[r] EXCEPT !.n = IF @ >= 3 THEN 2 ELSE @]]

\* C23 holds of the server.
NormalizationRulesOfServer == deploy = "server" => NormalizationRules

\* The request names its source language.
ExplicitSource(x) == SourceLangOf(x.body) # JsString(auto)

\* C24: the detection capability is called only for sourceLang "auto" (or omitted);
\* a successful request with an explicit sourceLang made no detection call and is
\* answered with detectedSourceLang equal to its sourceLang.
DetectOnlyAuto ==
    /\ \A s \in Sessions : req[s].pc # "idle" /\ ExplicitSource(req[s]) => req[s].nDetect = 0
    /\ resp.path = "/translate" /\ ExplicitSource(resp) => resp.nDetect = 0
    /\ resp.path = "/translate" /\ ExplicitSource(resp) /\ resp.status = 200
          => resp.detectedSourceLang = resp.body.sourceLang

\* C24 happens: a request with an explicit sourceLang was translated upstream.
DetectOnlyAutoSeen ==
    /\ resp.status = 200 /\ resp.path = "/translate"
    /\ ExplicitSource(resp)
    /\ resp.nTranslate = 1
    /\ resp.detectedSourceLang = resp.body.sourceLang

\* The exchange ended at the short circuit: its source language, given or detected,
\* is its target language.
ShortCircuited(x) ==
    x.status = 200 /\ x.path = "/translate" /\ x.resolved = x.body.targetLang

\* C25: a short-circuited request made no cache lookup, no cache write and no
\* translation call, and the step that answered it left the cache as it was.
ShortCircuitSkipsCache ==
    /\ [](ShortCircuited(resp) =>
            /\ resp.nCacheRead = 0 /\ resp.nCacheWrite = 0 /\ resp.nTranslate = 0
            /\ resp.cacheKey = NoKey /\ resp.storeKey = NoKey)
    /\ [][ShortCircuited(resp') /\ (req' # req \/ left' # left) => cache' = cache]_vars

\* C25 happens: a request is short-circuited while the cache holds an entry.
ShortCircuitSkipsCacheSeen == ShortCircuited(resp) /\ cache # <<>>

\* C26: requests that overlap on an uncached key are each translated upstream, each
\* answered with cached false and each written; the entry under the key is then
\* that of the later write.
StampedeTolerated ==
    resp.status = 200 /\ resp.nTranslate = 1 =>
        /\ ~resp.cached
        /\ resp.nCacheWrite = 1
        /\ resp.storeKey = resp.cacheKey
        /\ resp.storeKey \in DOMAIN cache => cache[resp.storeKey].translation = resp.translation

\* C26 happens: the request found no entry at its lookup, another request wrote one
\* with a different translation while it waited, and its own write replaced it.
StampedeToleratedSeen ==
    /\ resp.status = 200 /\ resp.nTranslate = 1 /\ ~resp.alone
    /\ resp.nCacheRead = 1 /\ ~resp.live
    /\ resp.overwrote.valid
    /\ resp.t - resp.overwrote.timestamp < CACHE_TTL_MS
    /\ resp.overwrote.translation # resp.translation
    /\ resp.storeKey \in DOMAIN cache
    /\ cache[resp.storeKey].translation = resp.translation
    /\ \A s \in Sessions : req[s].pc = "idle"

\* C27: a cache write replaces whatever entry the key had, expired or not, and
\* resets its age: after a successful miss-path request the entry of its key holds
\* the translation of that request, stored at the time of the write.
CacheOverwrite ==
    resp.status = 200 /\ resp.nCacheWrite = 1 =>
        /\ resp.tStore = resp.t
        /\ now - resp.tStore <= CACHE_TTL_MS => resp.storeKey \in DOMAIN cache
        /\ resp.storeKey \in DOMAIN cache =>
              /\ cache[resp.storeKey].translation = resp.translation
              /\ cache[resp.storeKey].timestamp = resp.tStore
              /\ deploy = "worker" =>
                    cache[resp.storeKey].expiresAt = resp.tStore + CACHE_TTL * 1000

\* C27 happens: the write replaced an entry that had expired.
CacheOverwriteSeen ==
    /\ resp.status = 200 /\ resp.nCacheWrite = 1
    /\ resp.overwrote.valid
    /\ resp.t - resp.overwrote.timestamp >= CACHE_TTL_MS
    /\ resp.storeKey \in DOMAIN cache
    /\ cache[resp.storeKey].timestamp = resp.tStore
    /\ cache[resp.storeKey].timestamp > resp.overwrote.timestamp

RECURSIVE Total(_, _)
Total(f, S) ==
    IF S = {} THEN 0
    ELSE LET x == CHOOSE y \in S : TRUE IN f[x] + Total(f, S \ {x})

\* The requests allowed in the interval of one window length that begins at time a.
AllowedFrom(a) ==
    Total(output, {t \in DOMAIN output : a <= t /\ t <= a + RATE_LIMIT_WINDOW * 1000})

\* C28: of the requests one client sends one after another, no interval of one
\* window length holds more than twice RATE_LIMIT_MAX allowed ones.
SeamBound == \A a \in DOMAIN output : AllowedFrom(a) <= 2 * RATE_LIMIT_MAX

\* C28 happens: a burst on each side of a window boundary, 2 * RATE_LIMIT_MAX allowed.
SeamBoundSeen == \E a \in DOMAIN output : AllowedFrom(a) = 2 * RATE_LIMIT_MAX

\* C29: a rejection by checkRateLimit leaves the record of the client, its count,
\* windowStart and expiry, exactly as it was.
RejectionKeepsWindow ==
    /\ [](deploy = "worker" /\ RateLimited(resp) => ~resp.counted)
    /\ [][deploy = "worker" /\ RateLimited(resp') /\ (req' # req \/ left' # left)
            => rl' = rl /\ admitted' = admitted]_vars

\* C29 happens: a request of the worker is rejected late in a full window.
RejectionKeepsWindowSeen ==
    /\ deploy = "worker"
    /\ RateLimited(resp)
    /\ rl[resp.client].count = RATE_LIMIT_MAX
    /\ rl[resp.client].windowStart < resp.t

\* C30: the requests of one client read and write only its own window record; what
\* the limiter decides for ip2, and the record it keeps, are what they would be
\* had ip1 sent nothing.
ClientIsolation ==
    /\ rl[RateLimitKey("ip2")] = input
    /\ output.with = output.without

\* C30 happens: ip1 has used up its window and ip2 is allowed in the same minute.
ClientIsolationSeen ==
    /\ rl["ip1"] # NoRecord /\ rl["ip1"].count = RATE_LIMIT_MAX
    /\ rl["ip2"] # NoRecord /\ rl["ip2"].count < RATE_LIMIT_MAX
    /\ rl["ip2"].windowStart = rl["ip1"].windowStart
    /\ output.with > 0

\* C31: of requests that run one after another, every stored window record has
\* 1 <= count <= RATE_LIMIT_MAX, and every allowed request reports remaining =
\* RATE_LIMIT_MAX - count for the count it stored, between 0 and RATE_LIMIT_MAX - 1.
CounterInvariant ==
    /\ \A c \in Clients :
          rl[c] # NoRecord => 1 <= rl[c].count /\ rl[c].count <= RATE_LIMIT_MAX
    /\ \A d \in input :
          /\ d.remaining = RATE_LIMIT_MAX - d.count
          /\ 0 <= d.remaining /\ d.remaining <= RATE_LIMIT_MAX - 1

\* C31 happens: a burst ran from the first request of a window to the last allowed.
CounterInvariantSeen ==
    /\ \E d \in input : d.count = 1 /\ d.remaining = RATE_LIMIT_MAX - 1
    /\ \E d \in input : d.count = RATE_LIMIT_MAX /\ d.remaining = 0
    /\ rl["ip1"].count = RATE_LIMIT_MAX

HitLeavesCache ==
    [][/\ resp'.status = 200 /\ resp'.cached
       /\ req' # req \/ left' # left
       => /\ cache' = cache
          /\ resp'.cacheKey \in DOMAIN cache
          /\ now - cache[resp'.cacheKey].timestamp <
                 (IF deploy = "server" THEN CACHE_TTL_MS ELSE CACHE_TTL * 1000)]_vars

\* C33 happens: a hit was served some time after the entry was written, and the
\* entry still carries the time of its write.
HitLeavesCacheSeen ==
    /\ resp.status = 200 /\ resp.cached
    /\ resp.cacheKey \in DOMAIN cache
    /\ cache[resp.cacheKey].timestamp < resp.t
    /\ now = resp.t

\* C34: on the server the sweep removes only entries older than the TTL and
\* leaves the others as they are; a lookup of any key finds in the swept store
\* what it would find in the store had no sweep ever run (output, the store of
\* the same run without sweeps), so the responses of the two runs are the same.
SweepInvisible ==
    /\ [](deploy = "server" =>
            /\ DOMAIN cache \subseteq DOMAIN output
            /\ \A k \in DOMAIN output :
                  /\ CacheHitServer(cache, k, now) <=> CacheHitServer(output, k, now)
                  /\ CacheHitServer(output, k, now) => cache[k] = output[k])
    /\ [][cache' # cache /\ req' = req /\ left' = left
          => /\ \A k \in DOMAIN cache \ DOMAIN cache' :
                   /\ now - cache[k].timestamp > CACHE_TTL_MS
                   /\ ~CacheHitServer(cache, k, now)
             /\ \A k \in DOMAIN cache' : k \in DOMAIN cache /\ cache'[k] = cache[k]
             /\ resp' = resp]_vars

\* C34 happens: an entry was swept, and a request that arrived after the entry
\* had expired looked its key up and missed, as it would have without the sweep.
SweepInvisibleSeen ==
    /\ deploy = "server"
    /\ now > CACHE_TTL_MS
    /\ \E s \in Sessions :
          /\ req[s].pc = "translate" /\ req[s].nCacheRead = 1 /\ ~req[s].live
          /\ req[s].alone
          /\ rl[req[s].client] # NoRecord /\ rl[req[s].client].windowStart = now
          /\ req[s].cacheKey \in DOMAIN output \ DOMAIN cache
          /\ ~CacheHitServer(output, req[s].cacheKey, now)

\* C35: a response with cached: true carries the translation of an entry that a
\* request with the same normalized text, resolved source language, target
\* language and provider stored; an entry stored under other components is
\* never read.
CacheKeySeparation ==
    /\ [](\A k \in DOMAIN cache :
            k = generateCacheKey(cache[k].by.text, cache[k].by.sourceLang,
                                 cache[k].by.targetLang, cache[k].by.provider))
    /\ [][/\ resp'.status = 200 /\ resp'.cached
          /\ req' # req \/ left' # left
          => /\ resp'.cacheKey \in DOMAIN cache
             /\ cache[resp'.cacheKey].by = Components(resp')
             /\ resp'.translation = cache[resp'.cacheKey].translation]_vars

\* C35 happens: a request whose source language was detected was answered from
\* the entry stored under its four components.
CacheKeySeparationSeen ==
    /\ resp.status = 200 /\ resp.cached /\ resp.nDetect = 1
    /\ resp.cacheKey \in DOMAIN cache
    /\ cache[resp.cacheKey].by = Components(resp)
    /\ now = resp.t

\* C35 also happens: a request looked up its key while the store held a live
\* entry of the same text, target and provider under another source language,
\* and missed.
CacheKeySeparationMissSeen ==
    \E s \in Sessions, k \in DOMAIN cache :
        /\ req[s].pc = "translate" /\ req[s].nCacheRead = 1 /\ ~req[s].live
        /\ req[s].alone
        /\ now - cache[k].timestamp < CACHE_TTL_MS
        /\ cache[k].translation # <<>>
        /\ cache[k].by.sourceLang # req[s].resolved
        /\ cache[k].by = [Components(req[s]) EXCEPT !.sourceLang = cache[k].by.sourceLang]

\* The completed exchange of POST /translate is a success or an error with one
\* of the statuses.
Answered(statuses) ==
    resp.path = "/translate" /\ resp.status # 0 =>
        \/ /\ resp.status = 200
           /\ resp.error = "" /\ resp.detectedSourceLang = resp.resolved
        \/ /\ resp.status \in statuses
           /\ resp.error # ""

\* C36: every answer of POST /translate is a success {translation, cached,
\* detectedSourceLang} or an error with status 400, 429, 500 or 502.
OneResponseOfKnownStatus == Answered({400, 429, 500, 502})

\* What holds instead: the server's statuses are 400, 401, 429, 500 and 502, the
\* worker's are the four of the claim.
OneResponseWith401 ==
    /\ Answered({400, 401, 429, 500, 502})
    /\ deploy = "worker" => Answered({400, 429, 500, 502})

\* C37: normalizeText(normalizeText(t)) = normalizeText(t) for every text t.
NormalizeIdempotent ==
    output.done => normalizeText(deploy, output.text) = output.text

\* C37 happens: the server normalized a text of four line breaks, the worker a
\* text with a tab inside and a space at the end, and either result differs from
\* the text.
NormalizeIdempotentSeen ==
    /\ output.done /\ output.text # input
    /\ \/ deploy = "server" /\ input = <<"\n", "\n", "\n", "\n">>
       \/ deploy = "worker" /\ input = <<"a", "\t", "a", " ">>

\* With C37: the text a short-circuited request returns is one that
\* normalizeText leaves as it is, so sent again it comes back unchanged.
ResubmissionUnchanged ==
    ShortCircuited(resp) => normalizeText(deploy, resp.translation) = resp.translation

====
